---- MODULE Spec2Model ----
(***************************************************************************)
(* Model of diffxpy/stats.py: six stateless per-gene hypothesis tests.     *)
(*                                                                         *)
(* Each test is a pure function, modelled as an operator that returns an   *)
(* outcome record: either the returned p-value vector or the exception     *)
(* that left the function (its type, the source line that raised it and    *)
(* its message).  The state machine draws one call (function and inputs)   *)
(* in Init and applies the function in one action.                         *)
(*                                                                         *)
(* Numbers.  numpy float64 values are modelled as exact extended           *)
(* rationals [n, d, r]: d > 0 is the finite value n/d (r = 1) or           *)
(* sign(n)*sqrt(|n|/d) (r = 2, the result of np.sqrt on a non-square);     *)
(* d = 0 are the IEEE specials +inf (n = 1), -inf (n = -1), NaN (n = 0).   *)
(* Division by zero follows numpy: x/0 is +-inf, 0/0 is NaN, no exception. *)
(* Rounding error and signed zero are not modelled.                        *)
(*                                                                         *)
(* Distributions.  scipy.stats CDFs are external; a CDF value is kept      *)
(* symbolic ([k |-> "cdf", dist, df, x]) except at the points where scipy  *)
(* returns an exact value: NaN for invalid shape parameters or NaN         *)
(* arguments, 0 at or below the lower end of the support, 1 at the upper   *)
(* end, 0.5 at the centre of a symmetric distribution.  A CDF is strictly  *)
(* monotone inside its support, so two symbolic values of one distribution *)
(* are equal exactly when their records are equal.                         *)
(***************************************************************************)
EXTENDS Integers, Sequences, FiniteSets, TLC

\* ------------------------------------------------------------------ bounds
\* Longest coefficient / moment vector drawn for wald_test, two_coef_z_test
\* and t_test_moments.
MaxGenes == 2
\* Longest log-likelihood vector drawn for likelihood_ratio_test.
MaxLL == 3
\* Largest number of cells (observations * genes) of an observation array.
MaxCells == 4

\* Input domains.
LLVals == {-105, -100, -50}
DfVals == {1, 3}
MleVals == {0, 1}
SdVals == {0, 1}
Theta0Vals == {0, 1}
MuVals == {0, 1}
VarVals == {0, 1}
GroupSizes == {1, 2}
ObsVals == {0, 1}

\* ----------------------------------------------------------------- numbers
Abs(i) == IF i < 0 THEN -i ELSE i

Sgn(i) == IF i < 0 THEN -1 ELSE IF i > 0 THEN 1 ELSE 0

RECURSIVE GCD(_, _)
GCD(a, b) == IF b = 0 THEN a ELSE GCD(b, a % b)

NaN == [n |-> 0, d |-> 0, r |-> 1]
PInf == [n |-> 1, d |-> 0, r |-> 1]
NInf == [n |-> -1, d |-> 0, r |-> 1]

\* The finite rational n/d, d # 0, in lowest terms with a positive denominator.
Norm(n, d) ==
    LET g == GCD(Abs(n), Abs(d))
        s == IF d < 0 THEN -1 ELSE 1
    IN [n |-> (s * n) \div g, d |-> Abs(d) \div g, r |-> 1]

\* A Python int or an integral float.
R(i) == [n |-> i, d |-> 1, r |-> 1]

Zero == R(0)

IsNaN(a) == a.d = 0 /\ a.n = 0
IsInf(a) == a.d = 0 /\ a.n # 0
\* Sign of a value (0 for zero and for NaN).
SgnOf(a) == Sgn(a.n)

Neg(a) == [a EXCEPT !.n = -a.n]

Add(a, b) ==
    IF IsNaN(a) \/ IsNaN(b) THEN NaN
    ELSE IF IsInf(a) THEN (IF IsInf(b) /\ b.n # a.n THEN NaN ELSE a)
    ELSE IF IsInf(b) THEN b
    ELSE LET g == GCD(a.d, b.d)
         IN Norm(a.n * (b.d \div g) + b.n * (a.d \div g), (a.d \div g) * b.d)

Sub(a, b) == Add(a, Neg(b))

Mul(a, b) ==
    IF IsNaN(a) \/ IsNaN(b) THEN NaN
    ELSE IF IsInf(a) \/ IsInf(b)
         THEN (IF SgnOf(a) * SgnOf(b) = 0 THEN NaN
               ELSE IF SgnOf(a) * SgnOf(b) > 0 THEN PInf ELSE NInf)
    ELSE LET g1 == GCD(Abs(a.n), b.d)
             g2 == GCD(Abs(b.n), a.d)
         IN Norm((a.n \div g1) * (b.n \div g2), (a.d \div g2) * (b.d \div g1))

Square(a) == Mul(a, a)

\* numpy true division of two plain (r = 1) values.
DivPlain(a, b) ==
    IF IsNaN(a) \/ IsNaN(b) THEN NaN
    ELSE IF IsInf(a) THEN (IF IsInf(b) THEN NaN
                           ELSE IF SgnOf(b) < 0 THEN Neg(a) ELSE a)
    ELSE IF IsInf(b) THEN Zero
    ELSE IF b.n = 0 THEN (IF a.n = 0 THEN NaN
                          ELSE IF a.n > 0 THEN PInf ELSE NInf)
    ELSE LET g1 == GCD(Abs(a.n), Abs(b.n))
             g2 == GCD(a.d, b.d)
         IN Norm((a.n \div g1) * (b.d \div g2), (a.d \div g2) * (b.n \div g1))

IsSquare(k) == \E i \in 0..k : i * i = k

RECURSIVE ISqrt(_, _)
ISqrt(k, i) == IF i * i >= k THEN i ELSE ISqrt(k, i + 1)

\* The value sign(q)*sqrt(|q|) of a finite plain q, in canonical form.
FromSSq(q) ==
    IF IsSquare(Abs(q.n)) /\ IsSquare(q.d)
    THEN [n |-> Sgn(q.n) * ISqrt(Abs(q.n), 0), d |-> ISqrt(q.d, 0), r |-> 1]
    ELSE [n |-> q.n, d |-> q.d, r |-> 2]

\* sign(a)*a^2 of a finite value.
SSq(a) == IF a.r = 2 THEN [n |-> a.n, d |-> a.d, r |-> 1]
          ELSE Norm(Sgn(a.n) * a.n * a.n, a.d * a.d)

\* np.sqrt of a plain value: NaN below zero.
Sqrt(a) ==
    IF IsNaN(a) THEN NaN
    ELSE IF IsInf(a) THEN (IF a.n > 0 THEN PInf ELSE NaN)
    ELSE IF a.n < 0 THEN NaN
    ELSE FromSSq(a)

\* numpy true division; the divisor may be a square root.
Div(a, b) ==
    IF a.r = 1 /\ b.r = 1 THEN DivPlain(a, b)
    ELSE IF IsNaN(a) \/ IsNaN(b) THEN NaN
    ELSE IF IsInf(a) THEN (IF SgnOf(b) < 0 THEN Neg(a) ELSE a)
    ELSE IF IsInf(b) THEN Zero
    ELSE IF b.n = 0 THEN (IF a.n = 0 THEN NaN
                          ELSE IF a.n > 0 THEN PInf ELSE NInf)
    ELSE FromSSq(DivPlain(SSq(a), SSq(b)))

\* a > 0, false for NaN.
Gt0(a) == a.n > 0

\* ----------------------------------------------------------- distributions
PNaN(dist) == [k |-> "nan", dist |-> dist, df |-> Zero, x |-> Zero]
PZero(dist) == [k |-> "zero", dist |-> dist, df |-> Zero, x |-> Zero]
POne(dist) == [k |-> "one", dist |-> dist, df |-> Zero, x |-> Zero]
PHalf(dist) == [k |-> "half", dist |-> dist, df |-> Zero, x |-> Zero]

\* scipy.stats.chi2(df).cdf(x): support (0, inf), shape parameter df > 0.
Chi2Cdf(df, x) ==
    IF ~Gt0(df) \/ IsNaN(x) THEN PNaN("chi2")
    ELSE IF x = PInf THEN POne("chi2")
    ELSE IF ~Gt0(x) THEN PZero("chi2")
    ELSE [k |-> "cdf", dist |-> "chi2", df |-> df, x |-> x]

\* scipy.stats.norm(loc=0, scale=1).cdf(x).
NormCdf(x) ==
    IF IsNaN(x) THEN PNaN("norm")
    ELSE IF x = PInf THEN POne("norm")
    ELSE IF x = NInf THEN PZero("norm")
    ELSE IF x.n = 0 THEN PHalf("norm")
    ELSE [k |-> "cdf", dist |-> "norm", df |-> Zero, x |-> x]

\* scipy.stats.t(df).cdf(x): shape parameter df > 0.
TCdf(df, x) ==
    IF ~Gt0(df) \/ IsNaN(x) THEN PNaN("t")
    ELSE IF x = PInf THEN POne("t")
    ELSE IF x = NInf THEN PZero("t")
    ELSE IF x.n = 0 THEN PHalf("t")
    ELSE [k |-> "cdf", dist |-> "t", df |-> df, x |-> x]

\* 1 - p for a CDF value p.
OneMinus(p) ==
    CASE p.k = "nan" -> p
      [] p.k = "zero" -> [p EXCEPT !.k = "one"]
      [] p.k = "one" -> [p EXCEPT !.k = "zero"]
      [] p.k = "half" -> p
      [] p.k = "cdf" -> [p EXCEPT !.k = "sf"]
      [] p.k = "sf" -> [p EXCEPT !.k = "cdf"]

\* ------------------------------------------------------------ numpy arrays
\* Non-empty sequences over S of length at most n.
SeqsUpTo(S, n) == UNION {[1..k -> S] : k \in 1..n}

\* Length of the elementwise combination of 1-D arrays of lengths a and b
\* under numpy broadcasting; -1 when the shapes cannot be broadcast.
BroadcastLen(a, b) ==
    IF a = b THEN a
    ELSE IF a = 1 THEN b
    ELSE IF b = 1 THEN a
    ELSE -1

\* Element i of a 1-D array stretched by broadcasting.
At(v, i) == IF Len(v) = 1 THEN v[1] ELSE v[i]

\* ---------------------------------------------------------------- outcomes
Return(pvals, calls) ==
    [kind |-> "return", exc |-> "", line |-> 0, msg |-> "",
     pvals |-> pvals, mwu_calls |-> calls]

Raise(exc, line, msg) ==
    [kind |-> "raise", exc |-> exc, line |-> line, msg |-> msg,
     pvals |-> <<>>, mwu_calls |-> 0]

NoOutcome ==
    [kind |-> "none", exc |-> "", line |-> 0, msg |-> "",
     pvals |-> <<>>, mwu_calls |-> 0]

\* numpy's own error for operands whose shapes cannot be broadcast.
BroadcastMsg == "operands could not be broadcast together"

\* --------------------------------------------------- likelihood_ratio_test
LrtMsg ==
    "stats.likelihood_ratio_test(): ll_full and ll_red have to contain the same number of genes"

\* Mutant: the difference in degrees of freedom taken the wrong way round.
likelihood_ratio_test_swapped_df(ll_full, ll_reduced, df_full, df_reduced) ==
    LET delta_df == df_reduced - df_full
        n == BroadcastLen(Len(ll_full), Len(ll_reduced))
        delta_dev == [i \in 1..n |->
                        Mul(R(2), Sub(R(At(ll_full, i)), R(At(ll_reduced, i))))]
    IN IF n = -1
       THEN Raise("ValueError", 32, BroadcastMsg)
       ELSE Return([i \in 1..n |-> OneMinus(Chi2Cdf(R(delta_df), delta_dev[i]))], 0)

likelihood_ratio_test(ll_full, ll_reduced, df_full, df_reduced) ==
    IF Len(ll_full) # Len(ll_full)
    THEN Raise("ValueError", 28, LrtMsg)
    ELSE
    LET delta_df == df_full - df_reduced
        n == BroadcastLen(Len(ll_full), Len(ll_reduced))
        delta_dev == [i \in 1..n |->
                        Mul(R(2), Sub(R(At(ll_full, i)), R(At(ll_reduced, i))))]
    IN IF n = -1
       THEN Raise("ValueError", 32, BroadcastMsg)
       ELSE Return([i \in 1..n |-> OneMinus(Chi2Cdf(R(delta_df), delta_dev[i]))], 0)

\* ---------------------------------------------------------------- wilcoxon
\* An ndarray of 1 or 2 dimensions: data[i][j] is observation i of gene j; a
\* 1-D array of n observations holds n rows of one cell.
Rows(x) == Len(x.data)

\* x[:, j].flatten()
Column(x, j) == [i \in 1..Rows(x) |-> x.data[i][j]]

\* x.reshape([x.shape[0], 1]) of a 1-D array.
Reshape(x) == [x EXCEPT !.ndim = 2, !.shape = <<x.shape[1], 1>>]

\* scipy.stats.mannwhitneyu(x, y, alternative='two-sided').pvalue, symbolic:
\* a value determined by the two samples.  The errors scipy itself raises for
\* samples it cannot rank are outside the model.
mannwhitneyu(x, y) == [k |-> "mwu", x |-> x, y |-> y]

WilcoxonNdimMsg ==
    "stats.wilcoxon(): number of dimensions is not allowed to differ between x0 and x1!"

WilcoxonAxisMsg ==
    "stats.wilcoxon(): the first axis (number of tests) is not allowed to differ between x0 and x1!"

\* Mutant: the second check compares axis 0 (observations) instead of axis 1.
wilcoxon_axis0(x0, x1) ==
    IF x0.ndim # x1.ndim
    THEN Raise("ValueError", 56, WilcoxonNdimMsg)
    ELSE
    LET y0 == IF x0.ndim = 1 THEN Reshape(x0) ELSE x0
        y1 == IF x0.ndim = 1 THEN Reshape(x1) ELSE x1
    IN IF y0.shape[1] # y1.shape[1]
       THEN Raise("ValueError", 62, WilcoxonAxisMsg)
       ELSE IF y1.shape[2] < y0.shape[2]
       THEN Raise("IndexError", 64, "index is out of bounds for axis 1")
       ELSE Return([i \in 1..y0.shape[2] |->
                      mannwhitneyu(Column(y0, i), Column(y1, i))],
                   y0.shape[2])

wilcoxon(x0, x1) ==
    IF x0.ndim # x1.ndim
    THEN Raise("ValueError", 56, WilcoxonNdimMsg)
    ELSE
    LET y0 == IF x0.ndim = 1 THEN Reshape(x0) ELSE x0
        y1 == IF x0.ndim = 1 THEN Reshape(x1) ELSE x1
    IN IF y0.shape[2] # y1.shape[2]
       THEN Raise("ValueError", 62, WilcoxonAxisMsg)
       ELSE Return([i \in 1..y0.shape[2] |->
                      mannwhitneyu(Column(y0, i), Column(y1, i))],
                   y0.shape[2])

\* ---------------------------------------------------------- t_test_moments
TMomentsMsg ==
    "stats.t_test_moments(): mu and mu1 have to contain the same number of entries"

t_test_moments(mu0, mu1, var0, var1, n0, n1) ==
    IF Len(mu0) # Len(mu1)
    THEN Raise("ValueError", 134, TMomentsMsg)
    ELSE IF Len(var0) # Len(var1)
    THEN Raise("ValueError", 136, TMomentsMsg)
    ELSE
    LET nv == Len(var0)
        n == BroadcastLen(Len(mu0), nv)
        se2 == [i \in 1..nv |-> Add(Div(var0[i], R(n0)), Div(var1[i], R(n1)))]
        s_delta == [i \in 1..nv |-> Sqrt(se2[i])]
        t == [i \in 1..n |-> Div(Sub(At(mu0, i), At(mu1, i)), At(s_delta, i))]
        df == [i \in 1..nv |->
                 Div(Square(se2[i]),
                     Add(Div(Square(Div(var0[i], R(n0))), R(n0 - 1)),
                         Div(Square(Div(var1[i], R(n1))), R(n1 - 1))))]
    IN IF n = -1
       THEN Raise("ValueError", 139, BroadcastMsg)
       ELSE Return([i \in 1..n |-> OneMinus(TCdf(At(df, i), t[i]))], 0)

\* --------------------------------------------------------------- t_test_raw
TRawMsg ==
    "stats.t_test_raw(): x0 and x1 have to contain the same number of genes"

IndexMsg == "tuple index out of range"

\* Sum of a sequence of numbers.
RECURSIVE NpSum(_)
NpSum(v) == IF v = <<>> THEN Zero ELSE Add(Head(v), NpSum(Tail(v)))

\* np.mean over the observations of one gene.
NpMean(col) == Div(NpSum(col), R(Len(col)))

\* Mutant: the sample variance (ddof = 1) instead of the population variance.
NpVar_ddof1(col) ==
    LET m == NpMean(col)
    IN Div(NpSum([i \in 1..Len(col) |-> Square(Sub(col[i], m))]), R(Len(col) - 1))

\* np.var (ddof = 0) over the observations of one gene:
\* mean(abs(x - x.mean())**2).
NpVar(col) ==
    LET m == NpMean(col)
    IN NpMean([i \in 1..Len(col) |-> Square(Sub(col[i], m))])

t_test_raw(x0, x1) ==
    IF x0.ndim < 2 \/ x1.ndim < 2
    THEN Raise("IndexError", 86, IndexMsg)
    ELSE IF x0.shape[2] # x1.shape[2]
    THEN Raise("ValueError", 87, TRawMsg)
    ELSE
    LET y0 == IF x0.ndim = 1 THEN Reshape(x0) ELSE x0
        y1 == IF x0.ndim = 1 THEN Reshape(x1) ELSE x1
    IN IF y0.shape[2] # y1.shape[2]
       THEN Raise("ValueError", 93, WilcoxonAxisMsg)
       ELSE
       LET g0 == y0.shape[2]
           g1 == y1.shape[2]
           mu0 == [j \in 1..g0 |-> NpMean([i \in 1..Rows(y0) |-> R(y0.data[i][j])])]
           var0 == [j \in 1..g0 |-> NpVar([i \in 1..Rows(y0) |-> R(y0.data[i][j])])]
           mu1 == [j \in 1..g1 |-> NpMean([i \in 1..Rows(y1) |-> R(y1.data[i][j])])]
           var1 == [j \in 1..g1 |-> NpVar([i \in 1..Rows(y1) |-> R(y1.data[i][j])])]
           n0 == y0.shape[1]
           n1 == y1.shape[1]
       IN t_test_moments(mu0, mu1, var0, var1, n0, n1)

\* ---------------------------------------------------------------- wald_test
WaldMsg ==
    "stats.wald_test(): theta_mle and theta_sd have to contain the same number of entries"

wald_test(theta_mle, theta_sd, theta0) ==
    IF Len(theta_mle) # Len(theta_sd)
    THEN Raise("ValueError", 178, WaldMsg)
    ELSE
    LET n == Len(theta_mle)
        wald_statistic == [i \in 1..n |->
                             Div(Sub(theta_mle[i], R(theta0)), theta_sd[i])]
    IN Return([i \in 1..n |-> OneMinus(NormCdf(wald_statistic[i]))], 0)

\* ---------------------------------------------------------- two_coef_z_test
ZMleMsg ==
    "stats.two_coef_z_test(): theta_mle0 and theta_mle1 have to contain the same number of entries"

ZSdMsg ==
    "stats.two_coef_z_test(): theta_sd0 and theta_sd1 have to contain the same number of entries"

ZMleSdMsg ==
    "stats.two_coef_z_test(): theta_mle0 and theta_sd0 have to contain the same number of entries"

\* Lines 221-223: the z statistic and its upper-tail probability.
z_pvals(theta_mle0, theta_mle1, theta_sd0, theta_sd1) ==
    LET nm == BroadcastLen(Len(theta_mle0), Len(theta_mle1))
        ns == BroadcastLen(Len(theta_sd0), Len(theta_sd1))
        n == IF nm = -1 \/ ns = -1 THEN -1 ELSE BroadcastLen(nm, ns)
        z_statistic == [i \in 1..n |->
            Div(Sub(At(theta_mle0, i), At(theta_mle1, i)),
                Sqrt(Add(Square(At(theta_sd0, i)), Square(At(theta_sd1, i)))))]
    IN IF n = -1
       THEN Raise("ValueError", 221, BroadcastMsg)
       ELSE Return([i \in 1..n |-> OneMinus(NormCdf(z_statistic[i]))], 0)

\* Mutant: the check of theta_mle0 against theta_sd0 is missing.
two_coef_z_test_no_cross_check(theta_mle0, theta_mle1, theta_sd0, theta_sd1) ==
    IF Len(theta_mle0) # Len(theta_mle1)
    THEN Raise("ValueError", 214, ZMleMsg)
    ELSE IF Len(theta_sd0) # Len(theta_sd1)
    THEN Raise("ValueError", 217, ZSdMsg)
    ELSE z_pvals(theta_mle0, theta_mle1, theta_sd0, theta_sd1)

two_coef_z_test(theta_mle0, theta_mle1, theta_sd0, theta_sd1) ==
    IF Len(theta_mle0) # Len(theta_mle1)
    THEN Raise("ValueError", 214, ZMleMsg)
    ELSE IF Len(theta_sd0) # Len(theta_sd1)
    THEN Raise("ValueError", 217, ZSdMsg)
    ELSE IF Len(theta_mle0) # Len(theta_sd0)
    THEN Raise("ValueError", 219, ZMleSdMsg)
    ELSE z_pvals(theta_mle0, theta_mle1, theta_sd0, theta_sd1)

\* ------------------------------------------------------------------- state
VARIABLES fn, args, pc, outcome

vars == <<fn, args, pc, outcome>>

\* Vectors of numbers over the integers of S.
NumSeqs(S, n) == SeqsUpTo({R(i) : i \in S}, n)

\* 1-D arrays of up to MaxCells observations of one gene.
Arrays1D ==
    UNION {{[ndim |-> 1, shape |-> <<r>>, data |-> m] :
              m \in [1..r -> [1..1 -> ObsVals]]} : r \in 1..MaxCells}

\* observations x genes arrays of at most MaxCells cells.
Arrays2D ==
    UNION {{[ndim |-> 2, shape |-> <<rc[1], rc[2]>>, data |-> m] :
              m \in [1..rc[1] -> [1..rc[2] -> ObsVals]]} :
           rc \in {p \in (1..MaxCells) \X (1..MaxCells) : p[1] * p[2] <= MaxCells}}

Arrays == Arrays1D \cup Arrays2D

LrtArgs ==
    [ll_full : SeqsUpTo(LLVals, MaxLL), ll_reduced : SeqsUpTo(LLVals, MaxLL),
     df_full : DfVals, df_reduced : DfVals]

WilcoxonArgs == [x0 : Arrays, x1 : Arrays]

TRawArgs == [x0 : Arrays, x1 : Arrays]

TMomentsArgs ==
    [mu0 : NumSeqs(MuVals, MaxGenes), mu1 : NumSeqs(MuVals, MaxGenes),
     var0 : NumSeqs(VarVals, MaxGenes), var1 : NumSeqs(VarVals, MaxGenes),
     n0 : GroupSizes, n1 : GroupSizes]

WaldArgs ==
    [theta_mle : NumSeqs(MleVals, MaxGenes), theta_sd : NumSeqs(SdVals, MaxGenes),
     theta0 : Theta0Vals]

ZArgs ==
    [theta_mle0 : NumSeqs(MleVals, MaxGenes), theta_mle1 : NumSeqs(MleVals, MaxGenes),
     theta_sd0 : NumSeqs(SdVals, MaxGenes), theta_sd1 : NumSeqs(SdVals, MaxGenes)]

Init ==
    /\ pc = "ready"
    /\ outcome = NoOutcome
    /\ \/ fn = "likelihood_ratio_test" /\ args \in LrtArgs
       \/ fn = "wilcoxon" /\ args \in WilcoxonArgs
       \/ fn = "t_test_raw" /\ args \in TRawArgs
       \/ fn = "t_test_moments" /\ args \in TMomentsArgs
       \/ fn = "wald_test" /\ args \in WaldArgs
       \/ fn = "two_coef_z_test" /\ args \in ZArgs

CallLikelihoodRatioTest ==
    /\ pc = "ready"
    /\ fn = "likelihood_ratio_test"
    /\ outcome' = likelihood_ratio_test(args.ll_full, args.ll_reduced,
                                        args.df_full, args.df_reduced)
    /\ pc' = "done"
    /\ UNCHANGED <<fn, args>>

CallWilcoxon ==
    /\ pc = "ready"
    /\ fn = "wilcoxon"
    /\ outcome' = wilcoxon(args.x0, args.x1)
    /\ pc' = "done"
    /\ UNCHANGED <<fn, args>>

CallTTestRaw ==
    /\ pc = "ready"
    /\ fn = "t_test_raw"
    /\ outcome' = t_test_raw(args.x0, args.x1)
    /\ pc' = "done"
    /\ UNCHANGED <<fn, args>>

CallTTestMoments ==
    /\ pc = "ready"
    /\ fn = "t_test_moments"
    /\ outcome' = t_test_moments(args.mu0, args.mu1, args.var0, args.var1,
                                 args.n0, args.n1)
    /\ pc' = "done"
    /\ UNCHANGED <<fn, args>>

CallWaldTest ==
    /\ pc = "ready"
    /\ fn = "wald_test"
    /\ outcome' = wald_test(args.theta_mle, args.theta_sd, args.theta0)
    /\ pc' = "done"
    /\ UNCHANGED <<fn, args>>

CallTwoCoefZTest ==
    /\ pc = "ready"
    /\ fn = "two_coef_z_test"
    /\ outcome' = two_coef_z_test(args.theta_mle0, args.theta_mle1,
                                  args.theta_sd0, args.theta_sd1)
    /\ pc' = "done"
    /\ UNCHANGED <<fn, args>>

Next ==
    \/ CallLikelihoodRatioTest
    \/ CallWilcoxon
    \/ CallTTestRaw
    \/ CallTTestMoments
    \/ CallWaldTest
    \/ CallTwoCoefZTest

Spec == Init /\ [][Next]_vars

\* ------------------------------------------------------------------ claims
Done == pc = "done"

ArrayFns == {"wilcoxon", "t_test_raw"}

\* The array parameters of each function.
ArrayParams(f) ==
    CASE f = "likelihood_ratio_test" -> {"ll_full", "ll_reduced"}
      [] f = "wilcoxon" -> {"x0", "x1"}
      [] f = "t_test_raw" -> {"x0", "x1"}
      [] f = "t_test_moments" -> {"mu0", "mu1", "var0", "var1"}
      [] f = "wald_test" -> {"theta_mle", "theta_sd"}
      [] f = "two_coef_z_test" -> {"theta_mle0", "theta_mle1", "theta_sd0", "theta_sd1"}

\* The numpy shape of the array passed for parameter p of the call.
ShapeOf(p) == IF fn \in ArrayFns THEN args[p].shape ELSE <<Len(args[p])>>

\* Gene count of an observation array: a 1-D array holds one gene.
Genes(x) == IF x.ndim = 1 THEN 1 ELSE x.shape[2]

\* The function applied to a call's arguments.
Apply(f, a) ==
    CASE f = "likelihood_ratio_test" ->
           likelihood_ratio_test(a.ll_full, a.ll_reduced, a.df_full, a.df_reduced)
      [] f = "wilcoxon" -> wilcoxon(a.x0, a.x1)
      [] f = "t_test_raw" -> t_test_raw(a.x0, a.x1)
      [] f = "t_test_moments" ->
           t_test_moments(a.mu0, a.mu1, a.var0, a.var1, a.n0, a.n1)
      [] f = "wald_test" -> wald_test(a.theta_mle, a.theta_sd, a.theta0)
      [] f = "two_coef_z_test" ->
           two_coef_z_test(a.theta_mle0, a.theta_mle1, a.theta_sd0, a.theta_sd1)

\* A call whose array inputs share one gene count.
ValidCall ==
    IF fn \in ArrayFns
    THEN args.x0.ndim = args.x1.ndim /\ Genes(args.x0) = Genes(args.x1)
    ELSE \A p, q \in ArrayParams(fn) : Len(args[p]) = Len(args[q])

\* The gene count F of a valid call.
FeatureCount ==
    IF fn \in ArrayFns THEN Genes(args.x0)
    ELSE Len(args[CHOOSE p \in ArrayParams(fn) : TRUE])

\* Gene j alone of an observation array, in the array's own dimensionality.
GeneOf(x, j) ==
    IF x.ndim = 1 THEN x
    ELSE [x EXCEPT !.shape = <<x.shape[1], 1>>,
                   !.data = [i \in 1..Len(x.data) |-> <<x.data[i][j]>>]]

\* The arguments of a valid call cut down to gene j.
OnlyGene(j) ==
    IF fn \in ArrayFns
    THEN [x0 |-> GeneOf(args.x0, j), x1 |-> GeneOf(args.x1, j)]
    ELSE [p \in DOMAIN args |->
            IF p \in ArrayParams(fn) THEN <<args[p][j]>> ELSE args[p]]

\* The p-value vector has one entry per gene and entry j is the p-value of
\* gene j tested on its own.
AlignedPvals ==
    /\ outcome.kind = "return"
    /\ Len(outcome.pvals) = FeatureCount
    /\ \A j \in 1..FeatureCount :
         /\ Apply(fn, OnlyGene(j)).kind = "return"
         /\ outcome.pvals[j] = Apply(fn, OnlyGene(j)).pvals[1]

\* C1: likelihood_ratio_test raises its shape-mismatch error, and returns no
\* p-values, whenever ll_full and ll_reduced differ in length.
C1_LrtLengthMismatchRaises ==
    (Done /\ fn = "likelihood_ratio_test"
          /\ Len(args.ll_full) # Len(args.ll_reduced))
    => (outcome.kind = "raise" /\ outcome.exc = "ValueError"
        /\ outcome.msg = LrtMsg)

\* C2: t_test_raw on two 1-D inputs completes without error and returns
\* exactly one p-value.
C2_TTestRaw1DReturnsOnePvalue ==
    (Done /\ fn = "t_test_raw" /\ args.x0.ndim = 1 /\ args.x1.ndim = 1)
    => (outcome.kind = "return" /\ Len(outcome.pvals) = 1)

ZLens ==
    {Len(args.theta_mle0), Len(args.theta_mle1),
     Len(args.theta_sd0), Len(args.theta_sd1)}

\* C3: two_coef_z_test raises one of its shape-mismatch errors whenever any
\* two of its four inputs differ in length, and reaches the z statistic
\* (line 221) only when all four lengths are equal.
C3_ZTestEveryPairChecked ==
    (Done /\ fn = "two_coef_z_test")
    => /\ Cardinality(ZLens) > 1
          => (outcome.kind = "raise" /\ outcome.exc = "ValueError"
              /\ outcome.line \in {214, 217, 219}
              /\ outcome.msg \in {ZMleMsg, ZSdMsg, ZMleSdMsg})
       /\ (outcome.kind = "return" \/ outcome.line = 221)
          => Cardinality(ZLens) = 1

\* C3 witness: the mle pair agrees, the sd pair agrees, theta_mle1 and
\* theta_sd1 differ, and the call is rejected.
C3_Witness ==
    /\ Done /\ fn = "two_coef_z_test"
    /\ Len(args.theta_mle0) = Len(args.theta_mle1)
    /\ Len(args.theta_sd0) = Len(args.theta_sd1)
    /\ Len(args.theta_mle1) # Len(args.theta_sd1)
    /\ outcome.kind = "raise" /\ outcome.line = 219

\* The function a stats.py error message names.
MsgFunction(msg) ==
    CASE msg = LrtMsg -> "likelihood_ratio_test"
      [] msg \in {WilcoxonNdimMsg, WilcoxonAxisMsg} -> "wilcoxon"
      [] msg = TRawMsg -> "t_test_raw"
      [] msg = TMomentsMsg -> "t_test_moments"
      [] msg = WaldMsg -> "wald_test"
      [] msg \in {ZMleMsg, ZSdMsg, ZMleSdMsg} -> "two_coef_z_test"
      [] OTHER -> ""

\* The two names a stats.py error message gives for the disagreeing inputs.
MsgArgs(msg) ==
    CASE msg = LrtMsg -> {"ll_full", "ll_red"}
      [] msg \in {WilcoxonNdimMsg, WilcoxonAxisMsg} -> {"x0", "x1"}
      [] msg = TRawMsg -> {"x0", "x1"}
      [] msg = TMomentsMsg -> {"mu", "mu1"}
      [] msg = WaldMsg -> {"theta_mle", "theta_sd"}
      [] msg = ZMleMsg -> {"theta_mle0", "theta_mle1"}
      [] msg = ZSdMsg -> {"theta_sd0", "theta_sd1"}
      [] msg = ZMleSdMsg -> {"theta_mle0", "theta_sd0"}
      [] OTHER -> {}

\* A shape-mismatch error raised by a check of stats.py itself.
ShapeErrorRaised ==
    /\ Done /\ outcome.kind = "raise" /\ outcome.exc = "ValueError"
    /\ outcome.msg # BroadcastMsg

\* C4: every shape-mismatch error message names the function that raised it
\* and the pair of arguments whose shapes disagree.
C4_MessageNamesFunctionAndPair ==
    ShapeErrorRaised
    => /\ MsgFunction(outcome.msg) = fn
       /\ Cardinality(MsgArgs(outcome.msg)) = 2
       /\ MsgArgs(outcome.msg) \subseteq ArrayParams(fn)
       /\ \A p, q \in MsgArgs(outcome.msg) : p # q => ShapeOf(p) # ShapeOf(q)

\* C5: every valid call whose inputs share one gene count F returns F
\* p-values, entry j belonging to gene j.
C5_OnePvaluePerFeature ==
    (Done /\ ValidCall) => AlignedPvals

\* C5 apart from t_test_raw on 1-D inputs (see C2).
C5_ExceptRaw1D ==
    (Done /\ ValidCall /\ ~(fn = "t_test_raw" /\ args.x0.ndim = 1))
    => AlignedPvals

\* Column j of a 2-D array as numbers.
Obs(x, j) == [i \in 1..Len(x.data) |-> R(x.data[i][j])]

\* Per-gene mean computed by hand: sum / n.
HandMean(col) == Div(NpSum(col), R(Len(col)))

\* Per-gene population variance computed by hand: E[x^2] - E[x]^2.
HandVar(col) ==
    Sub(Div(NpSum([i \in 1..Len(col) |-> Mul(col[i], col[i])]), R(Len(col))),
        Mul(HandMean(col), HandMean(col)))

RawIs2D ==
    /\ fn = "t_test_raw" /\ args.x0.ndim = 2 /\ args.x1.ndim = 2
    /\ args.x0.shape[2] = args.x1.shape[2]

\* C6: for 2-D x0 and x1 with equal column count, t_test_raw returns what
\* t_test_moments returns for the per-column means, the per-column population
\* variances and the row counts of x0 and x1, groups in the same order.
C6_RawEqualsMoments ==
    (Done /\ RawIs2D)
    => LET g == args.x0.shape[2]
       IN outcome =
            t_test_moments([j \in 1..g |-> HandMean(Obs(args.x0, j))],
                           [j \in 1..g |-> HandMean(Obs(args.x1, j))],
                           [j \in 1..g |-> HandVar(Obs(args.x0, j))],
                           [j \in 1..g |-> HandVar(Obs(args.x1, j))],
                           args.x0.shape[1], args.x1.shape[1])

\* C6 witness: two genes, two observations per group, both p-values ordinary
\* and distinct from each other.
C6_Witness ==
    /\ Done /\ RawIs2D
    /\ args.x0.shape[2] = 2
    /\ args.x0.shape[1] = 2 /\ args.x1.shape[1] = 2
    /\ outcome.kind = "return"
    /\ outcome.pvals[1].k = "sf" /\ outcome.pvals[2].k = "sf"
    /\ outcome.pvals[1] # outcome.pvals[2]

\* C7: wilcoxon raises a shape-mismatch error when x0 and x1 differ in the
\* number of dimensions and when they differ in column count after 1-D
\* inputs became one column, in both cases before any Mann-Whitney test has
\* run; a difference in row count alone never raises.
C7_WilcoxonShapeChecks ==
    (Done /\ fn = "wilcoxon")
    => /\ args.x0.ndim # args.x1.ndim
          => (outcome.kind = "raise" /\ outcome.exc = "ValueError"
              /\ outcome.msg = WilcoxonNdimMsg /\ outcome.mwu_calls = 0)
       /\ (args.x0.ndim = args.x1.ndim /\ Genes(args.x0) # Genes(args.x1))
          => (outcome.kind = "raise" /\ outcome.exc = "ValueError"
              /\ outcome.msg = WilcoxonAxisMsg /\ outcome.mwu_calls = 0)
       /\ (args.x0.ndim = args.x1.ndim /\ Genes(args.x0) = Genes(args.x1))
          => (outcome.kind = "return"
              /\ Len(outcome.pvals) = Genes(args.x0)
              /\ outcome.mwu_calls = Genes(args.x0))

\* C7 witness: two genes in both groups, different observation counts, and
\* the call returns.
C7_Witness ==
    /\ Done /\ fn = "wilcoxon"
    /\ args.x0.ndim = 2 /\ args.x1.ndim = 2
    /\ args.x0.shape[2] = 2 /\ args.x1.shape[2] = 2
    /\ args.x0.shape[1] # args.x1.shape[1]
    /\ outcome.kind = "return"

\* The call with its two groups exchanged.
Swapped ==
    IF fn = "t_test_raw" THEN [x0 |-> args.x1, x1 |-> args.x0]
    ELSE [mu0 |-> args.mu1, mu1 |-> args.mu0, var0 |-> args.var1,
          var1 |-> args.var0, n0 |-> args.n1, n1 |-> args.n0]

\* C8: t_test_moments and t_test_raw are two-sided: exchanging the two groups
\* leaves every gene's p-value unchanged.
C8_TTestTwoSided ==
    (Done /\ fn \in {"t_test_moments", "t_test_raw"} /\ outcome.kind = "return")
    => outcome.pvals = Apply(fn, Swapped).pvals

\* C9: likelihood_ratio_test returns, per gene, 1 - CDF_chi2(delta_df)(D) with
\* D = 2 * (ll_full - ll_reduced) and delta_df = df_full - df_reduced; a gene
\* with ll_full = ll_reduced gets exactly 1.0 when delta_df > 0.
C9_LrtDevianceChiSquare ==
    (Done /\ fn = "likelihood_ratio_test"
          /\ Len(args.ll_full) = Len(args.ll_reduced))
    => /\ outcome.kind = "return"
       /\ Len(outcome.pvals) = Len(args.ll_full)
       /\ \A i \in 1..Len(args.ll_full) :
            LET D == 2 * (args.ll_full[i] - args.ll_reduced[i])
                delta_df == args.df_full - args.df_reduced
            IN /\ outcome.pvals[i] = OneMinus(Chi2Cdf(R(delta_df), R(D)))
               /\ (D = 0 /\ delta_df > 0) => outcome.pvals[i] = POne("chi2")

\* C9 witness: ll_full = [-100, -50], ll_reduced = [-105, -50], df_full = 3,
\* df_reduced = 1: deviance [10, 0], delta_df = 2, second p-value 1.0.
C9_Witness ==
    /\ Done /\ fn = "likelihood_ratio_test"
    /\ args.ll_full = <<-100, -50>> /\ args.ll_reduced = <<-105, -50>>
    /\ args.df_full = 3 /\ args.df_reduced = 1
    /\ outcome.kind = "return"
    /\ outcome.pvals[1] = [k |-> "sf", dist |-> "chi2", df |-> R(2), x |-> R(10)]
    /\ outcome.pvals[2] = POne("chi2")

\* The functions C10 names.
NumericFns ==
    {"t_test_moments", "t_test_raw", "wald_test", "two_coef_z_test",
     "likelihood_ratio_test"}

\* Gene j of a valid call meets a degenerate numeric condition: a zero
\* divisor (zero standard deviation, zero variance in both groups), a group
\* of one observation, or df_full <= df_reduced.
Degenerate(j) ==
    CASE fn = "wald_test" -> args.theta_sd[j] = Zero
      [] fn = "two_coef_z_test" ->
           args.theta_sd0[j] = Zero /\ args.theta_sd1[j] = Zero
      [] fn = "t_test_moments" ->
           \/ args.n0 = 1 \/ args.n1 = 1
           \/ (args.var0[j] = Zero /\ args.var1[j] = Zero)
      [] fn = "t_test_raw" ->
           \/ Len(args.x0.data) = 1 \/ Len(args.x1.data) = 1
           \/ /\ \A i \in 1..Len(args.x0.data) :
                   args.x0.data[i][j] = args.x0.data[1][j]
              /\ \A i \in 1..Len(args.x1.data) :
                   args.x1.data[i][j] = args.x1.data[1][j]
      [] fn = "likelihood_ratio_test" -> args.df_full <= args.df_reduced

\* A degenerate call returns one p-value per gene; a degenerate gene's entry
\* is NaN or the 0 / 1 an infinite statistic gives, and every entry is what
\* its gene gets when tested alone.
DegeneratePropagates ==
    /\ AlignedPvals
    /\ \A j \in 1..FeatureCount :
         Degenerate(j) => outcome.pvals[j].k \in {"nan", "zero", "one"}

\* C10: no shape-valid call is rejected for degenerate numbers; the affected
\* entries carry the propagated special value and the others are unaffected.
C10_DegenerateInputsPropagate ==
    (Done /\ fn \in NumericFns /\ ValidCall
          /\ \E j \in 1..FeatureCount : Degenerate(j))
    => DegeneratePropagates

\* C10 apart from t_test_raw on 1-D inputs (see C2).
C10_ExceptRaw1D ==
    (Done /\ fn \in NumericFns /\ ValidCall
          /\ ~(fn = "t_test_raw" /\ args.x0.ndim = 1)
          /\ \E j \in 1..FeatureCount : Degenerate(j))
    => DegeneratePropagates
====
